---------------------------- MODULE Spec2Model ----------------------------
(***************************************************************************)
(* A model of ffmpeg_flow: the JSON binding store (storage.py), the         *)
(* FFmpegProcessManager control loop and the StreamController change        *)
(* detector (stream_controller.py), and the Flask handlers that call the    *)
(* store (app.py).  Request threads, the monitor_watermarks thread and the  *)
(* _auto_manager_loop thread share the store file.  No lock exists in the   *)
(* source, so a store call of any thread is three steps: the read of        *)
(* _load, the truncating open("w") of _save, and the write of json.dump     *)
(* through the handle that open returned.                                   *)
(***************************************************************************)
EXTENDS Naturals, Sequences, FiniteSets, TLC

(***************************************************************************)
(* Bounds of the model.                                                    *)
(***************************************************************************)
\* number of HTTP requests the Flask thread serves in one behaviour
MaxApi == 2
\* number of spontaneous exits of a running ffmpeg worker in one behaviour
MaxCrash == 1
\* the retry bound the launch-retry claim speaks of (the source has none)
MaxAttempts == 2
\* the debounce threshold the crash-debounce claim speaks of (the source
\* has none): the ghost counter consecMiss is capped here
DebounceThreshold == 3

(***************************************************************************)
(* Values.                                                                 *)
(***************************************************************************)
\* stream uids; "c1" is a substring of "c10", as "cam1" is of "cam10"
Uids == {"c1", "c10"}
Urls == {"urlA", "urlB"}
\* Python's None (request.files.get("file") absent, dict.get miss)
None == "None"

\* the characters of a uid, for Python's substring test `uid in cmdline`
UidChars(u) ==
    IF u = "c1" THEN <<"c", "1">> ELSE <<"c", "1", "0">>

\* f"{WATER_MARK_PATH}/{stream_uid}.png"
WmPath(u) ==
    IF u = "c1" THEN "wm/c1.png" ELSE "wm/c10.png"

\* f"{WATER_MARK_PATH}/{stream_uid}_{fence_uid}.png", one fence uid "f"
FencePath(u) ==
    IF u = "c1" THEN "wm/c1_f.png" ELSE "wm/c10_f.png"

Paths == {WmPath(u) : u \in Uids} \cup {FencePath(u) : u \in Uids}

\* f"{self.hls_output_dir}/{uid}_no_wm.m3u8" and ..._wm.m3u8
PlaylistNoWm(u) == <<"hls/">> \o UidChars(u) \o <<"_no_wm.m3u8">>
PlaylistWm(u) == <<"hls/">> \o UidChars(u) \o <<"_wm.m3u8">>

(***************************************************************************)
(* Python dicts that keep insertion order: a sequence of keys and a        *)
(* function on them.  The document is such a dict of bindings; a           *)
(* water_mark map is a sequence of <<wm_uid, path>> pairs.                 *)
(***************************************************************************)
EmptyDoc == [keys |-> <<>>, b |-> <<>>]

Range(s) == {s[i] : i \in DOMAIN s}

Has(d, u) == u \in DOMAIN d.b

SeqWithout(s, x) ==
    LET F[i \in 0..Len(s)] ==
            IF i = 0 THEN <<>>
            ELSE IF s[i] = x THEN F[i - 1] ELSE Append(F[i - 1], s[i])
    IN F[Len(s)]

\* data[uid] = value
DocPut(d, u, v) ==
    [keys |-> IF Has(d, u) THEN d.keys ELSE Append(d.keys, u),
     b |-> [x \in DOMAIN d.b \cup {u} |-> IF x = u THEN v ELSE d.b[x]]]

\* del data[uid]
DocDel(d, u) ==
    [keys |-> SeqWithout(d.keys, u),
     b |-> [x \in DOMAIN d.b \ {u} |-> d.b[x]]]

WmKeys(m) == {m[i][1] : i \in DOMAIN m}

\* stream_data["water_mark"][wm_uid] = watermark_path
WmPut(m, k, p) ==
    IF k \in WmKeys(m)
    THEN [i \in DOMAIN m |-> IF m[i][1] = k THEN <<k, p>> ELSE m[i]]
    ELSE Append(m, <<k, p>>)

\* list(watermarks.values())
WmValues(m) == [i \in DOMAIN m |-> m[i][2]]

\* cached_md5s.get(wm_uid)
WmGet(m, k) ==
    IF k \in WmKeys(m)
    THEN (CHOOSE pr \in Range(m) : pr[1] = k)[2]
    ELSE None

\* Python's dict equality: the same items, whatever their order
DictEq(m1, m2) == Range(m1) = Range(m2)

Statuses ==
    {"stopped", "need_start", "starting", "started",
     "need_stop", "stopping", "need_restart"}


(***************************************************************************)
(* storage.py: the operations of StorageManager as functions of the        *)
(* loaded document.  Each yields the document to save, whether _save is    *)
(* called, and the returned value.                                         *)
(***************************************************************************)
NoOp ==
    [k |-> "none", uid |-> None, url |-> None, wm |-> <<>>,
     wmid |-> None, path |-> None, status |-> None]

OpSetBinding(u, url) ==
    [NoOp EXCEPT !.k = "set_binding", !.uid = u, !.url = url, !.status = "stopped"]
OpUpdateWatermark(u, wm) ==
    [NoOp EXCEPT !.k = "update_watermark", !.uid = u, !.wm = wm]
OpUpdateWatermarkByWmUid(u, wmid, path) ==
    [NoOp EXCEPT !.k = "update_watermark_by_wm_uid", !.uid = u, !.wmid = wmid, !.path = path]
OpUpdateUrl(u, url) ==
    [NoOp EXCEPT !.k = "update_url", !.uid = u, !.url = url]
OpRemoveBinding(u) ==
    [NoOp EXCEPT !.k = "remove_binding", !.uid = u]
OpUpdateStatus(u, s) ==
    [NoOp EXCEPT !.k = "update_status", !.uid = u, !.status = s]
OpClearWatermarks(u) ==
    [NoOp EXCEPT !.k = "clear_watermarks", !.uid = u]

set_binding_keeps_status(d, op) ==
    [d |-> DocPut(d, op.uid,
                  [url |-> op.url, water_mark |-> op.wm,
                   hls_no_wm |-> PlaylistNoWm(op.uid),
                   hls_wm |-> PlaylistWm(op.uid),
                   status |-> IF Has(d, op.uid) THEN d.b[op.uid].status
                              ELSE op.status]),
     save |-> TRUE, ret |-> "None"]

set_binding(d, op) ==
    [d |-> DocPut(d, op.uid,
                  [url |-> op.url, water_mark |-> op.wm,
                   hls_no_wm |-> PlaylistNoWm(op.uid),
                   hls_wm |-> PlaylistWm(op.uid),
                   status |-> op.status]),
     save |-> TRUE, ret |-> "None"]

update_watermark(d, op) ==
    IF ~Has(d, op.uid)
    THEN [d |-> d, save |-> FALSE, ret |-> "False"]
    ELSE [d |-> [d EXCEPT !.b[op.uid].water_mark = op.wm],
          save |-> TRUE, ret |-> "True"]

update_watermark_by_wm_uid(d, op) ==
    IF ~Has(d, op.uid)
    THEN [d |-> d, save |-> FALSE, ret |-> "False"]
    ELSE [d |-> [d EXCEPT !.b[op.uid].water_mark = WmPut(@, op.wmid, op.path)],
          save |-> TRUE, ret |-> "True"]

update_url_renames_output(d, op) ==
    IF ~Has(d, op.uid)
    THEN [d |-> d, save |-> FALSE, ret |-> "KeyError"]
    ELSE [d |-> [d EXCEPT !.b[op.uid].url = op.url,
                          !.b[op.uid].hls_no_wm = <<"hls/", op.url, "_no_wm.m3u8">>],
          save |-> TRUE, ret |-> "True"]

\* data[uid]["url"] raises KeyError for an absent uid, before _save
update_url(d, op) ==
    IF ~Has(d, op.uid)
    THEN [d |-> d, save |-> FALSE, ret |-> "KeyError"]
    ELSE [d |-> [d EXCEPT !.b[op.uid].url = op.url],
          save |-> TRUE, ret |-> "True"]

remove_binding(d, op) ==
    IF Has(d, op.uid)
    THEN [d |-> DocDel(d, op.uid), save |-> TRUE, ret |-> "None"]
    ELSE [d |-> d, save |-> FALSE, ret |-> "None"]

update_status_upserts(d, op) ==
    IF Has(d, op.uid)
    THEN [d |-> [d EXCEPT !.b[op.uid].status = op.status],
          save |-> TRUE, ret |-> "True"]
    ELSE [d |-> DocPut(d, op.uid,
                       [url |-> None, water_mark |-> <<>>, hls_no_wm |-> <<>>,
                        hls_wm |-> <<>>, status |-> op.status]),
          save |-> TRUE, ret |-> "True"]

update_status(d, op) ==
    IF Has(d, op.uid)
    THEN [d |-> [d EXCEPT !.b[op.uid].status = op.status],
          save |-> TRUE, ret |-> "True"]
    ELSE [d |-> d, save |-> FALSE, ret |-> "False"]

clear_watermarks(d, op) ==
    IF ~Has(d, op.uid)
    THEN [d |-> d, save |-> FALSE, ret |-> "False"]
    ELSE [d |-> [d EXCEPT !.b[op.uid].water_mark = <<>>],
          save |-> TRUE, ret |-> "True"]

\* the files clear_watermarks removes: `if wm_path and os.path.exists(wm_path)`
ClearedFiles(d, op) ==
    IF op.k = "clear_watermarks" /\ Has(d, op.uid)
    THEN {p \in Range(WmValues(d.b[op.uid].water_mark)) : p # None}
    ELSE {}

StoreCall(d, op) ==
    CASE op.k = "set_binding" -> set_binding(d, op)
      [] op.k = "update_watermark" -> update_watermark(d, op)
      [] op.k = "update_watermark_by_wm_uid" -> update_watermark_by_wm_uid(d, op)
      [] op.k = "update_url" -> update_url(d, op)
      [] op.k = "remove_binding" -> remove_binding(d, op)
      [] op.k = "update_status" -> update_status(d, op)
      [] op.k = "clear_watermarks" -> clear_watermarks(d, op)

\* stop_all_streams, run by StorageManager.__init__
stop_all_streams(d) ==
    [d EXCEPT !.b = [u \in DOMAIN d.b |-> [d.b[u] EXCEPT !.status = "stopped"]]]

(***************************************************************************)
(* The text json.dump(data, f, indent=2) writes, by its length in bytes.   *)
(***************************************************************************)
\* len(s) of the strings a document is made of
StrLen(s) ==
    CASE s \in {"c", "1", "0", "f", "g"} -> 1
      [] s \in {"urlA", "urlB", "hls/"} -> 4
      [] s = "stopped" -> 7
      [] s \in {"starting", "stopping", "_wm.m3u8"} -> 8
      [] s \in {"started", "running"} -> 7
      [] s = "need_stop" -> 9
      [] s = "need_start" -> 10
      [] s = "need_restart" -> 12
      [] s = "_no_wm.m3u8" -> 11
      [] s = "wm/c1.png" -> 9
      [] s = "wm/c10.png" -> 10
      [] s = "wm/c1_f.png" -> 11
      [] s = "wm/c10_f.png" -> 12
      [] OTHER -> 4

\* a string value with its quotes; None is written null
JsonStr(s) == IF s = None THEN 4 ELSE StrLen(s) + 2

\* a string kept as the sequence of its parts
JsonParts(cs) ==
    LET F[i \in 0..Len(cs)] == IF i = 0 THEN 0 ELSE F[i - 1] + StrLen(cs[i])
    IN F[Len(cs)] + 2

\* a water_mark map: {} or one `"wm_uid": path` line per entry
JsonWm(m) ==
    LET F[i \in 0..Len(m)] ==
            IF i = 0 THEN 0
            ELSE F[i - 1] + 6 + JsonStr(m[i][1]) + 2 + JsonStr(m[i][2])
    IN IF m = <<>> THEN 2
       ELSE 2 + F[Len(m)] + 2 * (Len(m) - 1) + 6

\* `  "uid": {` ... `  }` with the five fields of a binding
JsonBinding(u, r) ==
    (2 + JsonParts(UidChars(u)) + 4)
    + (11 + JsonStr(r.url)) + 2
    + (18 + JsonWm(r.water_mark)) + 2
    + (17 + JsonParts(r.hls_no_wm)) + 2
    + (14 + JsonParts(r.hls_wm)) + 2
    + (14 + JsonStr(r.status))
    + 4

JsonLen(d) ==
    LET n == Len(d.keys)
        F[i \in 0..n] ==
            IF i = 0 THEN 0 ELSE F[i - 1] + JsonBinding(d.keys[i], d.b[d.keys[i]])
    IN IF n = 0 THEN 2 ELSE 2 + F[n] + 2 * (n - 1) + 2

(***************************************************************************)
(* State.                                                                  *)
(***************************************************************************)
VARIABLES
    doc,        \* the document json.dump wrote last, from the head of the file
    fileOk,     \* the file holds that document and nothing else
    fileLen,    \* the length of the file in bytes
    fs,         \* watermark files: path -> content, 0 = no file
    api,        \* the request threads of the Flask server
    ctl,        \* the _auto_manager_loop thread
    det,        \* the monitor_watermarks thread
    processes,  \* FFmpegProcessManager.processes: uid -> Popen handle
    orphans,    \* live ffmpeg processes of the host that no handle refers to
    wm_paths_cache, wm_md5_cache, url_cache,  \* StreamController's caches
    apiCalls, crashes,                        \* counters of the bounds
    dev,        \* StreamController.has_gpu / device_name, from check_device
    hist, intents, quiet,                  \* history variables
    consecMiss, failRun

storeVars == <<doc, fileOk, fileLen>>
cacheVars == <<wm_paths_cache, wm_md5_cache, url_cache>>
procVars == <<processes, orphans>>
ghostVars == <<hist, intents, quiet, consecMiss, failRun>>
vars == <<doc, fileOk, fileLen, fs, api, ctl, det, processes, orphans,
          wm_paths_cache, wm_md5_cache, url_cache, apiCalls, crashes, dev,
          hist, intents, quiet, consecMiss, failRun>>

\* _load: json.load of the file; a JSONDecodeError (the file is empty, or
\* a document followed by what is left of a longer one) yields {}
Load == IF fileOk THEN doc ELSE EmptyDoc

StatusOf(d, u) == IF Has(d, u) THEN d.b[u].status ELSE "absent"

(***************************************************************************)
(* History variables and the write of a document.                          *)
(***************************************************************************)
\* where a binding is on the way from `stopped` to `started`:
\*   s0 = stopped, s1 = then need_start, s2 = then starting, ok = then
\*   started, off = left that route, none = no binding.  A need_start
\*   written again while starting takes the route up again at s1
HistNext(h, old, new) ==
    IF new = old THEN h
    ELSE IF new = "absent" THEN "none"
    ELSE IF new = "stopped" THEN "s0"
    ELSE IF h \in {"s0", "s2"} /\ new = "need_start" THEN "s1"
    ELSE IF h = "s1" /\ new = "starting" THEN "s2"
    ELSE IF h = "s2" /\ new = "started" THEN "ok"
    ELSE IF h \in {"s0", "s1", "s2"} THEN "off"
    ELSE h

\* _save's open(self.storage_file, "w"): the file is cut to no bytes
Truncate ==
    /\ fileOk' = FALSE
    /\ fileLen' = 0
    /\ UNCHANGED doc

\* _save's json.dump and the close of the handle, by a caller that loaded
\* `base`: the caller's whole document is written from offset 0 of the
\* handle.  Bytes another handle wrote past its end stay in the file, and
\* the file then does not parse
Persist(op, base) ==
    LET new == StoreCall(base, op).d
        whole == JsonLen(new) >= fileLen
    IN /\ doc' = new
       /\ fileOk' = whole
       /\ fileLen' = IF whole THEN JsonLen(new) ELSE fileLen
       /\ hist' = [u \in Uids |-> HistNext(hist[u], StatusOf(doc, u), StatusOf(new, u))]
       /\ quiet' = (quiet /\ new = doc /\ whole)

(***************************************************************************)
(* app.py: the Flask handlers, each with the store calls it makes.         *)
(***************************************************************************)
\* the requests: /api/bind, /api/unbind, /api/start, /api/stop, /api/url,
\* /api/water_mark PATCH (with and without a file part; bytes is the
\* content of the upload), /api/fence/water_mark, /api/water_mark DELETE
Requests ==
    [h : {"bind"}, uid : Uids, url : {"urlA"}, file : {FALSE}, bytes : {0}]
    \cup [h : {"url"}, uid : Uids, url : {"urlB"}, file : {FALSE}, bytes : {0}]
    \cup [h : {"unbind", "start", "stop", "delwm"}, uid : Uids, url : {None},
          file : {FALSE}, bytes : {0}]
    \cup [h : {"wm"}, uid : Uids, url : {None}, file : {FALSE}, bytes : {0}]
    \cup [h : {"wm", "fence"}, uid : Uids, url : {None}, file : {TRUE}, bytes : {1, 2}]

\* the store calls a handler makes before it returns or raises.
\* StreamController has no start_stream and no stop_stream: sc.start_stream
\* and sc.stop_stream raise AttributeError.  start and stop make no store
\* call; unbind raises after remove_binding, before clear_watermarks;
\* delete_water_mark raises at its first statement, inside its try
Script(req) ==
    CASE req.h = "bind" -> <<OpSetBinding(req.uid, req.url)>>
      [] req.h = "unbind" -> <<OpRemoveBinding(req.uid)>>
      [] req.h = "start" -> <<>>
      [] req.h = "stop" -> <<>>
      [] req.h = "url" -> <<OpUpdateUrl(req.uid, req.url)>>
      [] req.h = "wm" ->
            <<OpUpdateWatermark(req.uid,
                  <<<<"0", IF req.file THEN WmPath(req.uid) ELSE None>>>>)>>
      [] req.h = "fence" ->
            <<OpUpdateWatermarkByWmUid(req.uid, "f", FencePath(req.uid))>>
      [] req.h = "delwm" -> <<>>

\* the handlers that end in the AttributeError of sc.start_stream or
\* sc.stop_stream (delete_water_mark catches it and answers with an error)
Raises(req) == req.h \in {"unbind", "start", "stop", "delwm"}

\* the intents of the External API layer as the specification has them:
\* set_status(uid, need_start | need_stop), a call of update_status
set_status(u, s) == OpUpdateStatus(u, s)

IntentRequests ==
    [h : {"need_start", "need_stop"}, uid : Uids, url : {None},
     file : {FALSE}, bytes : {0}]

\* the store calls of a request
Calls(req) ==
    IF req \in IntentRequests THEN <<set_status(req.uid, req.h)>> ELSE Script(req)

\* file.save(save_path): the content of the upload at the path
Uploaded(req) ==
    IF req.h = "wm" /\ req.file THEN {WmPath(req.uid)}
    ELSE IF req.h = "fence" THEN {FencePath(req.uid)}
    ELSE {}

\* app.run serves every request in a thread of its own; two at a time here
ApiThreads == {1, 2}

NoReq == [h |-> "none", uid |-> None, url |-> None, file |-> FALSE, bytes |-> 0]

ApiIdle ==
    [pc |-> "idle", req |-> NoReq, script |-> <<>>, base |-> EmptyDoc,
     bad |-> FALSE, ret |-> None]

\* the handler after its store call returned ret: it returns, or it ends
\* in an exception (AttributeError; KeyError out of update_url)
Done(req, ret) ==
    IF Raises(req)
    THEN [ApiIdle EXCEPT !.pc = "raised", !.req = req, !.ret = "AttributeError"]
    ELSE IF ret = "KeyError"
    THEN [ApiIdle EXCEPT !.pc = "raised", !.req = req, !.ret = "KeyError"]
    ELSE ApiIdle

\* the _load of a handler's store call and what the call does before
\* saving.  A call that does not save returns at once
Called(req) ==
    LET r == StoreCall(Load, Head(Calls(req)))
    IN IF r.save
       THEN [pc |-> "loaded", req |-> req, script |-> Calls(req),
             base |-> Load, bad |-> ~fileOk, ret |-> None]
       ELSE Done(req, r.ret)

\* a request arrives at the lowest free thread.  A handler that saves an
\* upload does file.save(save_path) and has its store call still to make;
\* the other handlers begin with their store call, whose _load this is
Arrive(reqs, budget) ==
    /\ apiCalls < budget
    /\ \E t \in ApiThreads, req \in reqs :
         /\ api[t].pc = "idle"
         /\ \A s \in ApiThreads : s < t => api[s].pc # "idle"
         /\ api' =
              [api EXCEPT ![t] =
                 IF Calls(req) = <<>> THEN Done(req, None)
                 ELSE IF Uploaded(req) # {}
                 THEN [ApiIdle EXCEPT !.pc = "call", !.req = req,
                                      !.script = Calls(req)]
                 ELSE Called(req)]
         /\ fs' = [p \in Paths |-> IF p \in Uploaded(req) THEN req.bytes ELSE fs[p]]
    /\ apiCalls' = apiCalls + 1
    /\ UNCHANGED <<storeVars, ctl, det, procVars, cacheVars, crashes, dev, ghostVars>>

\* the store call of a handler that has saved its upload: its _load
ApiLoad ==
    /\ \E t \in ApiThreads :
         /\ api[t].pc = "call"
         /\ api' = [api EXCEPT ![t] = Called(api[t].req)]
    /\ UNCHANGED <<storeVars, fs, ctl, det, procVars, cacheVars, apiCalls,
                   crashes, dev, ghostVars>>

\* the response to a request whose handler raised
ApiFail ==
    /\ \E t \in ApiThreads :
         /\ api[t].pc = "raised"
         /\ api' = [api EXCEPT ![t] = ApiIdle]
    /\ UNCHANGED <<storeVars, fs, ctl, det, procVars, cacheVars, apiCalls,
                   crashes, dev, ghostVars>>

ApiOpen ==
    /\ \E t \in ApiThreads :
         /\ api[t].pc = "loaded"
         /\ api' = [api EXCEPT ![t].pc = "open"]
    /\ Truncate
    /\ UNCHANGED <<fs, ctl, det, procVars, cacheVars, apiCalls, crashes, dev, ghostVars>>

\* a worker the registry tracks and that has not exited nor been signalled
Running(u) == u \in DOMAIN processes /\ processes[u].st = "running"

\* the intents a request wrote for a uid since it was bound: the last two
LastTwo(q) == IF Len(q) > 2 THEN Tail(q) ELSE q

ApiWrite ==
    /\ \E t \in ApiThreads :
         /\ api[t].pc = "open"
         /\ LET op == Head(api[t].script)
            IN /\ Persist(op, api[t].base)
               /\ intents' =
                    [u \in Uids |->
                       IF u # op.uid THEN intents[u]
                       ELSE IF op.k = "update_status"
                            THEN LastTwo(Append(intents[u], op.status))
                       ELSE IF op.k \in {"set_binding", "remove_binding"} THEN <<>>
                       ELSE intents[u]]
               /\ failRun' = [failRun EXCEPT ![op.uid] = 0]
               /\ api' = [api EXCEPT ![t] =
                             Done(api[t].req, StoreCall(api[t].base, op).ret)]
    /\ UNCHANGED <<fs, ctl, det, procVars, cacheVars, apiCalls, crashes, dev,
                   consecMiss>>

(***************************************************************************)
(* stream_controller.py: FFmpegProcessManager.                             *)
(***************************************************************************)
IsSubstring(s, t) ==
    \E i \in 0..(Len(t) - Len(s)) : SubSeq(t, i + 1, i + Len(s)) = s

\* the part of a worker's command line that names a uid: its playlist
\* paths f"{hls_output_dir}/{uid}_no_wm.m3u8"; the other arguments are the
\* url, the watermark paths of the same uid and fixed encoder options
CmdChars(u) == <<"/">> \o UidChars(u) \o <<"_">>

\* any(uid in cmdline for uid in valid_uids)
Mentions(valid, u) == \E v \in valid : IsSubstring(UidChars(v), CmdChars(u))

\* process.poll() is None
PollNone(h) == h.st # "exited"

\* subprocess.Popen(cmd) raises TypeError: an argument of cmd is None (the
\* url, or the path of a watermark uploaded without a file)
SpawnFails(info) ==
    \/ info.url = None
    \/ \E i \in DOMAIN info.water_mark : info.water_mark[i][2] = None

\* `uid not in self.processes or self.processes[uid].poll() is not None`
CrashDetected(u) == u \notin DOMAIN processes \/ ~PollNone(processes[u])

\* what check_device returned: (has_gpu and use_gpu, device_name); here
\* no h264_nvenc encoder, the name left at its default
SoftwarePath == [pc |-> "ready", has_gpu |-> FALSE, name |-> "unknown"]

\* FFmpegProcessManager.use_gpu, set by StreamController.__init__
use_gpu == TRUE

\* the label "[0:v]" is <<"in", 0>>, "[wm0]" is <<"wm", 0>>, "[v0]" is <<"v", 0>>
SourceVideo == <<"in", 0>>

\* _build_filter(watermark_paths): for the i-th watermark, in the order of
\* watermark_paths.values(), "[i+1:v]scale=iw:ih[wmi]" and
\* "last[wmi]overlay=0:0:format=auto[vi]"; returns the chain and the last label
_build_filter_unchained(wm) ==
    LET F[i \in 0..Len(wm)] ==
            IF i = 0 THEN <<>>
            ELSE F[i - 1] \o
                 <<[op |-> "scale", a |-> <<"in", i>>, b |-> <<"none", 0>>,
                    out |-> <<"wm", i - 1>>],
                   [op |-> "overlay", a |-> SourceVideo, b |-> <<"wm", i - 1>>,
                    out |-> <<"v", i - 1>>]>>
    IN [filters |-> F[Len(wm)],
        last |-> IF Len(wm) = 0 THEN SourceVideo ELSE <<"v", Len(wm) - 1>>]

_build_filter(wm) ==
    LET F[i \in 0..Len(wm)] ==
            IF i = 0 THEN <<>>
            ELSE F[i - 1] \o
                 <<[op |-> "scale", a |-> <<"in", i>>, b |-> <<"none", 0>>,
                    out |-> <<"wm", i - 1>>],
                   [op |-> "overlay",
                    a |-> IF i = 1 THEN SourceVideo ELSE <<"v", i - 2>>,
                    b |-> <<"wm", i - 1>>,
                    out |-> <<"v", i - 1>>]>>
    IN [filters |-> F[Len(wm)],
        last |-> IF Len(wm) = 0 THEN SourceVideo ELSE <<"v", Len(wm) - 1>>]

\* "-map", video, "-map", "0:a?", *_hls_output_args(playlist, gpu): one
\* HLS output; the codec is h264_nvenc on the gpu and libx264 otherwise
HlsOutput(video, playlist, gpu) ==
    [video |-> video, audio |-> "0:a?",
     codec |-> IF gpu THEN "h264_nvenc" ELSE "libx264",
     format |-> "hls", playlist |-> playlist]

\* the cmd list of _start_ffmpeg: "-i" url, "-i" wm for every watermark
\* path in list(watermarks.values()); with watermarks the filter chain and
\* the overlay output then the plain output, without them the plain one
Command(info, gpu) ==
    LET wm_paths == WmValues(info.water_mark)
        built == _build_filter(info.water_mark)
    IN [inputs |-> <<info.url>> \o wm_paths,
        filter_complex |-> IF wm_paths # <<>> THEN built.filters ELSE <<>>,
        outputs |->
            IF wm_paths # <<>>
            THEN <<HlsOutput(built.last, info.hls_wm, gpu),
                   HlsOutput(SourceVideo, info.hls_no_wm, gpu)>>
            ELSE <<HlsOutput(SourceVideo, info.hls_no_wm, gpu)>>]

NoInfo ==
    [url |-> None, water_mark |-> <<>>, hls_no_wm |-> <<>>, hls_wm |-> <<>>,
     status |-> None]

\* the thread between two ticks.  snap holds the bindings of this tick's
\* snapshot that the loop has not reached yet, info the one it is at
CtlIdle ==
    [pc |-> "sleep", snap |-> EmptyDoc, cur |-> None, info |-> NoInfo,
     op |-> NoOp, after |-> "loop", base |-> EmptyDoc]

\* back at the head of the for loop: uid and info are rebound there; when
\* the snapshot is used up the thread goes to time.sleep(10)
AtLoop(c) ==
    IF c.snap.keys = <<>> THEN CtlIdle
    ELSE [c EXCEPT !.pc = "loop", !.cur = None, !.info = NoInfo]

Resume(c, label) == IF label = "loop" THEN AtLoop(c) ELSE [c EXCEPT !.pc = label]

\* self.sm.update_status(uid, status) of the controller thread up to its
\* _save: the _load and the test `if uid in data`.  `after` is where the
\* thread goes on once the call has returned
CtlCall(c, u, status, after) ==
    LET op == OpUpdateStatus(u, status) IN
    ctl' = IF StoreCall(Load, op).save
           THEN [c EXCEPT !.pc = "loaded", !.op = op, !.after = after, !.base = Load]
           ELSE Resume(c, after)

\* the thread about to call self.sm.update_status(uid, status)
CtlGo(c, u, status, after) ==
    [c EXCEPT !.pc = "call", !.op = OpUpdateStatus(u, status), !.after = after]

Inc(n, cap) == IF n < cap THEN n + 1 ELSE cap

\* _kill_unknown_ffmpeg(valid_uids): proc.terminate() for every ffmpeg
\* process whose command line contains none of the valid uids
KillUnknown(valid) ==
    LET hit(u) == ~Mentions(valid, u)
    IN /\ processes' =
            [u \in DOMAIN processes |->
               IF PollNone(processes[u]) /\ hit(u)
               THEN [processes[u] EXCEPT !.st = "signalled"]
               ELSE processes[u]]
       /\ orphans' = {IF hit(o.uid) THEN [o EXCEPT !.st = "signalled"] ELSE o : o \in orphans}

\* the head of a tick: bindings = self.sm.list_bindings()
CtlTick ==
    /\ ctl.pc = "sleep"
    /\ ctl' = [ctl EXCEPT !.pc = "kill", !.snap = Load]
    /\ quiet' = fileOk
    /\ UNCHANGED <<storeVars, fs, api, det, procVars, cacheVars, apiCalls,
                   crashes, dev, hist, intents, consecMiss, failRun>>

\* valid_uids = set(bindings.keys()); self._kill_unknown_ffmpeg(valid_uids)
CtlKill ==
    /\ ctl.pc = "kill"
    /\ KillUnknown(DOMAIN ctl.snap.b)
    /\ ctl' = AtLoop(ctl)
    /\ UNCHANGED <<storeVars, fs, api, det, cacheVars, apiCalls, crashes, dev,
                   ghostVars>>

\* the head of `for uid, info in bindings.items()`: the branch on
\* info.get("status"), up to the _load of the first store call of the branch
CtlLoop ==
    /\ ctl.pc = "loop"
    /\ LET u == Head(ctl.snap.keys)
           info == ctl.snap.b[u]
           status == info.status
           c == [ctl EXCEPT !.cur = u, !.info = info, !.snap = DocDel(@, u)]
       IN /\ CASE status = "need_start" ->
                   /\ CtlCall(c, u, "starting", "start")
                   /\ UNCHANGED processes
               [] status = "need_stop" ->
                   /\ CtlCall(c, u, "stopping", "stop")
                   /\ UNCHANGED processes
               [] status = "need_restart" ->
                   /\ CtlCall(c, u, "starting", "restart")
                   /\ UNCHANGED processes
               [] status = "started" ->
                   /\ IF CrashDetected(u)
                      THEN CtlCall(c, u, "need_restart", "loop")
                      ELSE ctl' = AtLoop(c)
                   /\ UNCHANGED processes
               [] status = "stopped" ->
                   \* os.kill(pid, signal.SIGTERM) if the handle still runs
                   /\ ctl' = AtLoop(c)
                   /\ processes' =
                        IF u \in DOMAIN processes /\ PollNone(processes[u])
                        THEN [processes EXCEPT ![u].st = "signalled"]
                        ELSE processes
               [] OTHER ->
                   /\ ctl' = AtLoop(c)
                   /\ UNCHANGED processes
          /\ consecMiss' =
               [consecMiss EXCEPT ![u] =
                   IF status = "started" /\ CrashDetected(u)
                   THEN Inc(@, DebounceThreshold) ELSE 0]
    /\ UNCHANGED <<storeVars, fs, api, det, orphans, cacheVars, apiCalls,
                   crashes, dev, hist, intents, quiet, failRun>>

\* the open(self.storage_file, "w") of the controller's update_status
CtlOpen ==
    /\ ctl.pc = "loaded"
    /\ ctl' = [ctl EXCEPT !.pc = "open"]
    /\ Truncate
    /\ UNCHANGED <<fs, api, det, procVars, cacheVars, apiCalls, crashes, dev,
                   ghostVars>>

\* the json.dump of the controller's update_status
CtlWrite ==
    /\ ctl.pc = "open"
    /\ Persist(ctl.op, ctl.base)
    /\ ctl' = Resume([ctl EXCEPT !.op = NoOp, !.after = "loop", !.base = EmptyDoc],
                     ctl.after)
    /\ UNCHANGED <<fs, api, det, procVars, cacheVars, apiCalls, crashes, dev,
                   intents, consecMiss, failRun>>

\* _stop_ffmpeg(uid) on a registry and the untracked processes: pop the
\* handle; os.kill(pid, SIGTERM) if its poll() is None
StopRegistry(u) == [x \in DOMAIN processes \ {u} |-> processes[x]]
StopOrphans(u) ==
    IF u \in DOMAIN processes /\ PollNone(processes[u])
    THEN orphans \cup {[uid |-> u, st |-> "signalled",
                        url |-> processes[u].url, wm |-> processes[u].wm]}
    ELSE orphans

\* the _load and the test `if uid in data` of an update_status the
\* controller calls after _stop_ffmpeg or _start_ffmpeg, or inside
\* _start_ffmpeg
CtlLoad ==
    /\ ctl.pc = "call"
    /\ CtlCall([ctl EXCEPT !.op = NoOp, !.after = "loop"],
               ctl.op.uid, ctl.op.status, ctl.after)
    /\ UNCHANGED <<storeVars, fs, api, det, procVars, cacheVars, apiCalls,
                   crashes, dev, ghostVars>>

\* need_stop branch after the update_status(uid, "stopping"):
\* _stop_ffmpeg(uid); update_status(uid, "stopped") is called next
CtlStop ==
    /\ ctl.pc = "stop"
    /\ processes' = StopRegistry(ctl.cur)
    /\ orphans' = StopOrphans(ctl.cur)
    /\ ctl' = CtlGo(ctl, ctl.cur, "stopped", "loop")
    /\ UNCHANGED <<storeVars, fs, api, det, cacheVars, apiCalls, crashes, dev,
                   ghostVars>>

\* need_start / need_restart branch after the update_status(uid,
\* "starting"): [_stop_ffmpeg(uid);] _start_ffmpeg(uid, info), with info
\* the binding of this tick's snapshot; the update_status that follows
\* (need_restart inside _start_ffmpeg, started after it) is called next
CtlStart ==
    /\ ctl.pc \in {"start", "restart"}
    /\ LET u == ctl.cur
           info == ctl.info
           reg == IF ctl.pc = "restart" THEN StopRegistry(u) ELSE processes
       IN /\ orphans' = IF ctl.pc = "restart" THEN StopOrphans(u) ELSE orphans
          /\ IF u \in DOMAIN reg /\ PollNone(reg[u])
             THEN \* already running: mark need_restart and return
                  /\ ctl' = CtlGo(ctl, u, "need_restart", "final")
                  /\ processes' = reg
                  /\ UNCHANGED failRun
             ELSE IF SpawnFails(info)
             THEN \* except Exception: mark need_restart
                  /\ ctl' = CtlGo(ctl, u, "need_restart", "final")
                  /\ processes' = reg
                  /\ failRun' = [failRun EXCEPT ![u] = Inc(@, MaxAttempts + 1)]
             ELSE \* self.processes[uid] = process, then "started"
                  /\ processes' =
                       [x \in DOMAIN reg \cup {u} |->
                           IF x = u
                           THEN [st |-> "running", url |-> info.url, wm |-> info.water_mark,
                                 cmd |-> Command(info, use_gpu /\ dev.has_gpu)]
                           ELSE reg[x]]
                  /\ failRun' = [failRun EXCEPT ![u] = 0]
                  /\ ctl' = CtlGo(ctl, u, "started", "loop")
    /\ UNCHANGED <<storeVars, fs, api, det, cacheVars, apiCalls, crashes, dev,
                   hist, intents, quiet, consecMiss>>

CtlFinalRunning ==
    /\ ctl.pc = "final"
    /\ CtlCall(ctl, ctl.cur, "running", "loop")
    /\ UNCHANGED <<storeVars, fs, api, det, procVars, cacheVars, apiCalls,
                   crashes, dev, ghostVars>>

\* after _start_ffmpeg returned without a worker of its own:
\* self.sm.update_status(uid, "started") all the same, up to its _save
CtlFinal ==
    /\ ctl.pc = "final"
    /\ CtlCall(ctl, ctl.cur, "started", "loop")
    /\ UNCHANGED <<storeVars, fs, api, det, procVars, cacheVars, apiCalls,
                   crashes, dev, ghostVars>>

\* a store call of the for loop's body raises before it changes anything
\* (the open() of _load failing with an OSError), be it the first call of
\* a branch or one that follows _stop_ffmpeg or _start_ffmpeg: the
\* exception leaves the for loop for the `except Exception` of the tick,
\* which logs it and sleeps; the uids the loop had not reached are left
\* for a later tick.  Raised inside _start_ffmpeg it is caught there, and
\* the update_status of that except clause raises it again.  A
\* list_bindings() that raises leaves the thread where it is, asleep
CtlRaise ==
    /\ \/ /\ ctl.pc = "loop"
          /\ LET u == Head(ctl.snap.keys)
                 status == ctl.snap.b[u].status
             IN \/ status \in {"need_start", "need_stop", "need_restart"}
                \/ status = "started" /\ CrashDetected(u)
       \/ ctl.pc \in {"call", "final"}
    /\ ctl' = CtlIdle
    /\ UNCHANGED <<storeVars, fs, api, det, procVars, cacheVars, apiCalls,
                   crashes, dev, ghostVars>>

(***************************************************************************)
(* The ffmpeg processes themselves.                                        *)
(***************************************************************************)
\* a running worker exits by itself (source unreachable, encoder error)
WorkerExit ==
    /\ crashes < MaxCrash
    /\ \E u \in DOMAIN processes :
         /\ processes[u].st = "running"
         /\ processes' = [processes EXCEPT ![u].st = "exited"]
    /\ crashes' = crashes + 1
    /\ UNCHANGED <<storeVars, fs, api, ctl, det, orphans, cacheVars, apiCalls, dev,
                   ghostVars>>

\* a process that was sent SIGTERM exits
SignalledExit ==
    /\ \/ \E u \in DOMAIN processes :
            /\ processes[u].st = "signalled"
            /\ processes' = [processes EXCEPT ![u].st = "exited"]
            /\ UNCHANGED orphans
       \/ \E o \in orphans :
            /\ o.st = "signalled"
            /\ orphans' = orphans \ {o}
            /\ UNCHANGED processes
    /\ UNCHANGED <<storeVars, fs, api, ctl, det, cacheVars, apiCalls, crashes, dev, ghostVars>>

(***************************************************************************)
(* stream_controller.py: StreamController.monitor_watermarks.              *)
(***************************************************************************)
\* _file_md5(path) for a path that is a string: None (0) when no file
\* exists, else the digest of the content
FileMd5(p) == fs[p]

\* cached_md5s.get(wm_uid): None (0) when wm_uid is not cached
Md5Get(m, k) ==
    IF k \in WmKeys(m) THEN (CHOOSE pr \in Range(m) : pr[1] = k)[2] ELSE 0

\* {wm_uid: self._file_md5(p) for wm_uid, p in watermarks.items()}
Md5Map(wm) == [i \in DOMAIN wm |-> <<wm[i][1], FileMd5(wm[i][2])>>]

\* _file_md5(None): os.path.exists(None) raises TypeError
HasNonePath(wm) == \E i \in DOMAIN wm : wm[i][2] = None

\* the loop over watermarks.items() that compares digests: it breaks at
\* the first difference, and raises at a None path met before one
Md5Scan(wm, cached) ==
    LET diff(i) == wm[i][2] # None /\ FileMd5(wm[i][2]) # Md5Get(cached, wm[i][1])
        none(i) == wm[i][2] = None
    IN IF \E i \in DOMAIN wm : none(i) /\ \A j \in 1..(i - 1) : ~diff(j)
       THEN "TypeError"
       ELSE IF \E i \in DOMAIN wm : diff(i) THEN "changed" ELSE "same"

\* `url != cached_url or watermarks != cached_paths`
ConfigDiffers(u, info) ==
    \/ info.url # url_cache[u]
    \/ ~wm_paths_cache[u].set
    \/ ~DictEq(info.water_mark, wm_paths_cache[u].m)

\* the verdict of an evaluation of uid during which no file is written
Changed(u, info) ==
    IF ConfigDiffers(u, info) THEN "changed"
    ELSE Md5Scan(info.water_mark, wm_md5_cache[u])

\* the thread between two passes.  snap holds the bindings of this pass's
\* list_bindings() that the loop has not reached yet, cur and info the one
\* under evaluation, base what its update_status loaded, i the watermark
\* whose file is read next, acc the digests the cache refresh has so far
DetIdle ==
    [pc |-> "sleep", snap |-> EmptyDoc, cur |-> None, info |-> NoInfo,
     base |-> EmptyDoc, i |-> 0, acc |-> <<>>]

DetAtLoop(d) ==
    IF d.snap.keys = <<>> THEN DetIdle
    ELSE [d EXCEPT !.pc = "loop", !.cur = None, !.info = NoInfo, !.base = EmptyDoc,
                   !.i = 0, !.acc = <<>>]

\* `if changed:` up to the store call: update_status(uid, "need_restart")
\* comes next unless the binding is stopping or stopped, then the caches
Flagged(d, u, info) ==
    [d EXCEPT !.pc = IF info.status \notin {"need_stop", "stopped", "stopping"}
                     THEN "call" ELSE "refresh",
              !.cur = u, !.info = info, !.i = 0]

\* one turn of `for wm_uid, path in watermarks.items()`: the file of the
\* i-th watermark is read; a None path raises TypeError, which nothing
\* catches in monitor_watermarks; a digest that differs from the cached
\* one ends the loop
Scan(d, u, info, i) ==
    LET wm == info.water_mark
    IN IF wm[i][2] = None THEN [DetIdle EXCEPT !.pc = "dead"]
       ELSE IF FileMd5(wm[i][2]) # Md5Get(wm_md5_cache[u], wm[i][1])
       THEN Flagged(d, u, info)
       ELSE IF i = Len(wm) THEN DetAtLoop(d)
       ELSE [d EXCEPT !.pc = "scan", !.cur = u, !.info = info, !.i = i + 1]

\* for uid, info in self.sm.list_bindings().items()
DetPass ==
    /\ det.pc = "sleep"
    /\ det' = DetAtLoop([det EXCEPT !.snap = Load])
    /\ UNCHANGED <<storeVars, fs, api, ctl, procVars, cacheVars, apiCalls,
                   crashes, dev, ghostVars>>

\* one uid of the pass: the url and the watermark paths are compared with
\* the caches and, when they agree, the file of the first watermark is read
DetEval ==
    /\ det.pc = "loop"
    /\ LET u == Head(det.snap.keys)
           info == det.snap.b[u]
           d == [det EXCEPT !.snap = DocDel(@, u)]
       IN det' = IF ConfigDiffers(u, info) THEN Flagged(d, u, info)
                 ELSE IF info.water_mark = <<>> THEN DetAtLoop(d)
                 ELSE Scan(d, u, info, 1)
    /\ UNCHANGED <<storeVars, fs, api, ctl, procVars, cacheVars, apiCalls,
                   crashes, dev, ghostVars>>

\* the file of the next watermark is read and compared
DetScan ==
    /\ det.pc = "scan"
    /\ det' = Scan(det, det.cur, det.info, det.i)
    /\ UNCHANGED <<storeVars, fs, api, ctl, procVars, cacheVars, apiCalls,
                   crashes, dev, ghostVars>>

\* the _load and the test `if uid in data` of the detector's
\* update_status(uid, "need_restart")
DetLoad ==
    /\ det.pc = "call"
    /\ det' = IF StoreCall(Load, OpUpdateStatus(det.cur, "need_restart")).save
              THEN [det EXCEPT !.pc = "loaded", !.base = Load]
              ELSE [det EXCEPT !.pc = "refresh"]
    /\ UNCHANGED <<storeVars, fs, api, ctl, procVars, cacheVars, apiCalls,
                   crashes, dev, ghostVars>>

\* the open(self.storage_file, "w") of the detector's update_status
DetOpen ==
    /\ det.pc = "loaded"
    /\ det' = [det EXCEPT !.pc = "open"]
    /\ Truncate
    /\ UNCHANGED <<fs, api, ctl, procVars, cacheVars, apiCalls, crashes, dev,
                   ghostVars>>

\* its json.dump
DetWrite ==
    /\ det.pc = "open"
    /\ Persist(OpUpdateStatus(det.cur, "need_restart"), det.base)
    /\ det' = [det EXCEPT !.pc = "refresh", !.base = EmptyDoc]
    /\ UNCHANGED <<fs, api, ctl, procVars, cacheVars, apiCalls, crashes, dev,
                   intents, consecMiss, failRun>>

\* line 415: the path cache takes the evaluated watermarks; with no
\* watermark the digest cache and the url cache follow at once
DetRefresh ==
    /\ det.pc = "refresh"
    /\ LET u == det.cur
           info == det.info
       IN /\ wm_paths_cache' =
               [wm_paths_cache EXCEPT ![u] = [set |-> TRUE, m |-> info.water_mark]]
          /\ IF info.water_mark = <<>>
             THEN /\ wm_md5_cache' = [wm_md5_cache EXCEPT ![u] = <<>>]
                  /\ url_cache' = [url_cache EXCEPT ![u] = info.url]
                  /\ det' = DetAtLoop(det)
             ELSE /\ det' = [det EXCEPT !.pc = "hash", !.i = 1, !.acc = <<>>]
                  /\ UNCHANGED <<wm_md5_cache, url_cache>>
    /\ UNCHANGED <<storeVars, fs, api, ctl, procVars, apiCalls, crashes, dev,
                   ghostVars>>

\* line 416: one self._file_md5(p) of the dict comprehension; a None path
\* raises TypeError and ends the thread with the path cache assigned;
\* after the last file the digest cache and the url cache (line 417) are
\* assigned
DetHash ==
    /\ det.pc = "hash"
    /\ LET u == det.cur
           wm == det.info.water_mark
           i == det.i
       IN IF wm[i][2] = None
          THEN /\ det' = [DetIdle EXCEPT !.pc = "dead"]
               /\ UNCHANGED cacheVars
          ELSE LET acc == Append(det.acc, <<wm[i][1], FileMd5(wm[i][2])>>)
               IN IF i = Len(wm)
                  THEN /\ wm_md5_cache' = [wm_md5_cache EXCEPT ![u] = acc]
                       /\ url_cache' = [url_cache EXCEPT ![u] = det.info.url]
                       /\ det' = DetAtLoop(det)
                       /\ UNCHANGED wm_paths_cache
                  ELSE /\ det' = [det EXCEPT !.i = i + 1, !.acc = acc]
                       /\ UNCHANGED cacheVars
    /\ UNCHANGED <<storeVars, fs, api, ctl, procVars, apiCalls, crashes, dev,
                   ghostVars>>

(***************************************************************************)
(* The state after `sm = StorageManager()` and `sc = StreamController(sm)`. *)
(***************************************************************************)
InitBinding(u) ==
    [url |-> "urlA", water_mark |-> <<>>, hls_no_wm |-> PlaylistNoWm(u),
     hls_wm |-> PlaylistWm(u), status |-> "stopped"]

\* the documents a previous run can have left, after stop_all_streams
InitDocs ==
    {stop_all_streams([keys |-> ks, b |-> [u \in Range(ks) |-> InitBinding(u)]]) :
        ks \in {<<"c1", "c10">>}}

\* ffmpeg workers a previous run left running: its Popen children are not
\* stopped when the interpreter exits
Leftover(u) == [uid |-> u, st |-> "running", url |-> "urlA", wm |-> <<>>]

Start(d, left) ==
    /\ doc = d
    /\ fileOk = TRUE
    /\ fileLen = JsonLen(doc)
    /\ fs = [p \in Paths |-> 0]
    /\ api = [t \in ApiThreads |-> ApiIdle]
    /\ ctl = CtlIdle
    /\ det = DetIdle
    /\ processes = <<>>
    /\ orphans = left
    /\ wm_paths_cache =
         [u \in Uids |-> IF Has(doc, u)
                         THEN [set |-> TRUE, m |-> doc.b[u].water_mark]
                         ELSE [set |-> FALSE, m |-> <<>>]]
    /\ wm_md5_cache = [u \in Uids |-> <<>>]
    /\ url_cache = [u \in Uids |-> IF Has(doc, u) THEN doc.b[u].url ELSE None]
    /\ apiCalls = 0
    /\ crashes = 0
    /\ dev = SoftwarePath
    /\ hist = [u \in Uids |-> IF Has(doc, u) THEN "s0" ELSE "none"]
    /\ intents = [u \in Uids |-> <<>>]
    /\ quiet = FALSE
    /\ consecMiss = [u \in Uids |-> 0]
    /\ failRun = [u \in Uids |-> 0]

Init == \E d \in InitDocs, left \in {{}, {Leftover("c10")}} : Start(d, left)

\* the life cycle of the streams: intents, bind and unbind requests, the
\* controller and the workers.  No request changes a url or a watermark,
\* so a pass of the Change Detector finds nothing and is left out
LifeRequests ==
    IntentRequests \cup {req \in Requests : req.h \in {"bind", "unbind"}}

ApiRequest == Arrive(LifeRequests, MaxApi)

Next ==
    \/ ApiRequest \/ ApiFail \/ ApiOpen \/ ApiWrite
    \/ CtlTick \/ CtlKill \/ CtlLoop \/ CtlOpen \/ CtlWrite
    \/ CtlStop \/ CtlStart \/ CtlLoad \/ CtlFinal
    \/ WorkerExit \/ SignalledExit

Spec == Init /\ [][Next]_vars

\* start intents and the controller, with store calls of the controller
\* that can raise
StartIntents == {req \in IntentRequests : req.h = "need_start"}

ApiStart == Arrive(StartIntents, MaxApi)

NextFault ==
    \/ ApiStart \/ ApiOpen \/ ApiWrite
    \/ CtlTick \/ CtlKill \/ CtlLoop \/ CtlOpen \/ CtlWrite
    \/ CtlStart \/ CtlLoad \/ CtlFinal
    \/ CtlRaise
    \/ WorkerExit \/ SignalledExit

SpecFault == Init /\ [][NextFault]_vars

\* one stream that is started, reconfigured and stopped while the
\* controller and the Change Detector run; its worker runs until it is
\* sent SIGTERM.  No request stores a watermark, so the detector has no
\* file to read
MaxStreamApi == 3

StreamRequests ==
    {req \in IntentRequests : req.uid = "c1"}
    \cup {req \in Requests : req.uid = "c1" /\ req.h = "url"}

ApiStream == Arrive(StreamRequests, MaxStreamApi)

NextStream ==
    \/ ApiStream \/ ApiFail \/ ApiOpen \/ ApiWrite
    \/ CtlTick \/ CtlKill \/ CtlLoop \/ CtlOpen \/ CtlWrite
    \/ CtlStop \/ CtlStart \/ CtlLoad \/ CtlFinal
    \/ DetPass \/ DetEval \/ DetLoad \/ DetOpen \/ DetWrite \/ DetRefresh
    \/ SignalledExit

InitStream ==
    Start([keys |-> <<"c1">>, b |-> [u \in {"c1"} |-> InitBinding(u)]], {})

SpecStream == InitStream /\ [][NextStream]_vars

\* one stream that is started while its url and its watermarks are
\* changed, with the controller and the Change Detector
ConfigRequests ==
    {req \in IntentRequests : req.uid = "c1" /\ req.h = "need_start"}
    \cup {req \in Requests : req.uid = "c1" /\ req.h \in {"url", "wm", "fence"}}

ApiConfig == Arrive(ConfigRequests, MaxApi)

NextConfig ==
    \/ ApiConfig \/ ApiLoad \/ ApiFail \/ ApiOpen \/ ApiWrite
    \/ CtlTick \/ CtlKill \/ CtlLoop \/ CtlOpen \/ CtlWrite
    \/ CtlStart \/ CtlLoad \/ CtlFinal
    \/ DetPass \/ DetEval \/ DetScan \/ DetLoad \/ DetOpen \/ DetWrite
    \/ DetRefresh \/ DetHash
    \/ WorkerExit \/ SignalledExit

SpecConfig == Init /\ [][NextConfig]_vars

\* the Flask handlers on their own: every request of app.py, two at a time
ApiHandlers == Arrive(Requests, MaxApi)

NextApi == ApiHandlers \/ ApiLoad \/ ApiFail \/ ApiOpen \/ ApiWrite

SpecApi == Init /\ [][NextApi]_vars

\* the intents of one stream, the controller and the workers, with the
\* threads scheduled fairly: the controller thread loops for ever with a
\* sleep between two ticks (`while self.running` ... time.sleep), and a
\* request thread that has begun a store call finishes it
LifecycleRequests == {req \in IntentRequests : req.uid = "c1"}

ApiLifecycle == Arrive(LifecycleRequests, MaxApi)

ControllerStep ==
    \/ CtlTick \/ CtlKill \/ CtlLoop \/ CtlOpen \/ CtlWrite
    \/ CtlStop \/ CtlStart \/ CtlLoad \/ CtlFinal

HandlerStep == ApiOpen \/ ApiWrite

NextLive ==
    \/ ApiLifecycle \/ ApiOpen \/ ApiWrite
    \/ CtlTick \/ CtlKill \/ CtlLoop \/ CtlOpen \/ CtlWrite
    \/ CtlStop \/ CtlStart \/ CtlLoad \/ CtlFinal
    \/ WorkerExit \/ SignalledExit

SpecLive ==
    /\ Init
    /\ [][NextLive]_vars
    /\ WF_vars(ControllerStep)
    /\ WF_vars(HandlerStep)

(***************************************************************************)
(* Start-up: sc = StreamController(sm) with its check_device probe, then   *)
(* start intents and the controller launching workers.                     *)
(***************************************************************************)
\* the watermarks of a binding at most
MaxWm == 2

WmIds == {"0", "f", "g"}

\* what the probe meets: `ffmpeg -encoders` lists h264_nvenc, or does not,
\* or ffmpeg cannot be executed; nvidia-smi prints a name, or nothing, or
\* cannot be executed; /proc/cpuinfo has a model name, or none, or cat fails
ProbeEnvs ==
    [ffmpeg : {"nvenc", "plain", "raises"},
     smi : {"name", "empty", "raises"},
     cpu : {"name", "noname", "raises"}]

\* check_device(use_gpu=True) on Linux.  The outer except clause logs with
\* log_path=self.log_file_path, an attribute __init__ assigns only after
\* check_device has returned: the handler itself raises AttributeError
check_device(env) ==
    IF env.ffmpeg = "raises"
    THEN [exc |-> "AttributeError", has_gpu |-> FALSE, name |-> "unknown"]
    ELSE LET has_gpu == env.ffmpeg = "nvenc"
             after_smi ==
                 IF ~has_gpu THEN [use |-> TRUE, name |-> "unknown"]
                 ELSE IF env.smi = "name" THEN [use |-> TRUE, name |-> "gpu name"]
                 ELSE IF env.smi = "empty"
                      THEN [use |-> FALSE, name |-> "NVIDIA GPU (model unknown)"]
                 ELSE [use |-> FALSE, name |-> "GPU without a name"]
             device_name ==
                 IF after_smi.use THEN after_smi.name
                 ELSE IF env.cpu = "name" THEN "cpu name"
                 ELSE IF env.cpu = "noname" THEN after_smi.name
                 ELSE "CPU (model unknown)"
         IN [exc |-> None, has_gpu |-> has_gpu /\ after_smi.use, name |-> device_name]

\* the threads before StreamController.__init__ has started them
Down(thread) == [thread EXCEPT !.pc = "down"]

\* watermark maps of up to MaxWm entries, in every insertion order
BootWmMaps ==
    LET pairs == WmIds \X {WmPath("c1"), FencePath("c1")}
    IN {m \in UNION {[1..n -> pairs] : n \in 0..MaxWm} :
           \A i, j \in DOMAIN m : i # j => m[i][1] # m[j][1]}

\* the store file a previous run left, after stop_all_streams
BootDocs ==
    {stop_all_streams(
         [keys |-> <<"c1">>,
          b |-> [u \in {"c1"} |->
                    [InitBinding(u) EXCEPT !.url = url, !.water_mark = wm]]]) :
        url \in Urls, wm \in BootWmMaps}

InitBoot ==
    /\ doc \in BootDocs
    /\ fileOk = TRUE
    /\ fileLen = JsonLen(doc)
    /\ fs = [p \in Paths |-> 0]
    /\ api = [t \in ApiThreads |-> Down(ApiIdle)]
    /\ ctl = Down(CtlIdle)
    /\ det = Down(DetIdle)
    /\ processes = <<>>
    /\ orphans = {}
    /\ wm_paths_cache = [u \in Uids |-> [set |-> FALSE, m |-> <<>>]]
    /\ wm_md5_cache = [u \in Uids |-> <<>>]
    /\ url_cache = [u \in Uids |-> None]
    /\ apiCalls = 0
    /\ crashes = 0
    /\ dev = [pc |-> "unprobed", has_gpu |-> FALSE, name |-> "unknown"]
    /\ hist = [u \in Uids |-> IF Has(doc, u) THEN "s0" ELSE "none"]
    /\ intents = [u \in Uids |-> <<>>]
    /\ quiet = FALSE
    /\ consecMiss = [u \in Uids |-> 0]
    /\ failRun = [u \in Uids |-> 0]

\* sc = StreamController(sm): check_device, the caches from
\* list_bindings(), the process manager and its thread; then the monitor
\* thread and the Flask server.  An exception in __init__ ends the start-up
Construct ==
    /\ dev.pc = "unprobed"
    /\ \E env \in ProbeEnvs :
         LET r == check_device(env)
             raises == \/ r.exc # None
                       \/ \E u \in DOMAIN Load.b : HasNonePath(Load.b[u].water_mark)
         IN IF raises
            THEN /\ dev' = [pc |-> "aborted", has_gpu |-> FALSE, name |-> "unknown"]
                 /\ UNCHANGED <<api, ctl, det, cacheVars>>
            ELSE /\ dev' = [pc |-> "ready", has_gpu |-> r.has_gpu, name |-> r.name]
                 /\ wm_paths_cache' =
                      [u \in Uids |->
                         IF Has(Load, u)
                         THEN [set |-> TRUE, m |-> Load.b[u].water_mark]
                         ELSE wm_paths_cache[u]]
                 /\ wm_md5_cache' =
                      [u \in Uids |->
                         IF Has(Load, u) THEN Md5Map(Load.b[u].water_mark)
                         ELSE wm_md5_cache[u]]
                 /\ url_cache' =
                      [u \in Uids |-> IF Has(Load, u) THEN Load.b[u].url
                                      ELSE url_cache[u]]
                 /\ api' = [t \in ApiThreads |-> ApiIdle]
                 /\ ctl' = CtlIdle
                 /\ det' = DetIdle
    /\ UNCHANGED <<storeVars, fs, procVars, apiCalls, crashes, ghostVars>>

NextBoot ==
    \/ Construct
    \/ ApiStart \/ ApiOpen \/ ApiWrite
    \/ CtlTick \/ CtlKill \/ CtlLoop \/ CtlOpen \/ CtlWrite
    \/ CtlStart \/ CtlLoad \/ CtlFinal
    \/ WorkerExit \/ SignalledExit

SpecBoot == InitBoot /\ [][NextBoot]_vars

(***************************************************************************)
(* storage.py on its own: one caller that makes store calls one after      *)
(* another, each a whole _load / mutate / _save, with no other thread.     *)
(***************************************************************************)
\* the store calls one caller makes in a row
MaxCalls == 2

\* get_info(uid): data.get(uid, None); None is the record of Nones
get_info(d, u) == IF Has(d, u) THEN d.b[u] ELSE NoInfo

\* watermark maps {wm_uid: path} as the handlers build them
WmMaps(u) == {<<>>, <<<<"0", WmPath(u)>>>>, <<<<"f", FencePath(u)>>>>}

\* the calls, with arguments of the kinds the callers in src/ pass
StoreOps ==
    UNION {
        {[OpSetBinding(u, url) EXCEPT !.wm = wm] : url \in Urls, wm \in WmMaps(u)}
        \cup {OpUpdateWatermark(u, wm) : wm \in WmMaps(u)}
        \cup {OpUpdateWatermarkByWmUid(u, "f", FencePath(u))}
        \cup {OpUpdateUrl(u, url) : url \in Urls}
        \cup {OpRemoveBinding(u), OpClearWatermarks(u)}
        \cup {OpUpdateStatus(u, s) : s \in Statuses}
        : u \in Uids}

\* documents the store file can hold when the caller begins
StoreDocs ==
    LET recs(u) == {[InitBinding(u) EXCEPT !.water_mark = wm, !.status = s] :
                       wm \in {<<>>, <<<<"0", WmPath(u)>>>>},
                       s \in {"stopped", "started"}}
        keyss == {<<>>, <<"c1">>, <<"c10">>, <<"c1", "c10">>, <<"c10", "c1">>}
    IN UNION {{[keys |-> ks, b |-> f] :
                  f \in {g \in [Range(ks) -> UNION {recs(u) : u \in Uids}] :
                            \A u \in Range(ks) : g[u] \in recs(u)}}
              : ks \in keyss}

InitStore ==
    /\ doc \in StoreDocs
    /\ fileOk = TRUE
    /\ fileLen = JsonLen(doc)
    /\ fs = [p \in Paths |-> 0]
    /\ api = [t \in ApiThreads |-> ApiIdle]
    /\ ctl = CtlIdle
    /\ det = DetIdle
    /\ processes = <<>>
    /\ orphans = {}
    /\ wm_paths_cache = [u \in Uids |-> [set |-> FALSE, m |-> <<>>]]
    /\ wm_md5_cache = [u \in Uids |-> <<>>]
    /\ url_cache = [u \in Uids |-> None]
    /\ apiCalls = 0
    /\ crashes = 0
    /\ dev = SoftwarePath
    /\ hist = [u \in Uids |-> "none"]
    /\ intents = [u \in Uids |-> <<>>]
    /\ quiet = FALSE
    /\ consecMiss = [u \in Uids |-> 0]
    /\ failRun = [u \in Uids |-> 0]

\* the caller of the store
Caller == api[1]

\* one store call from _load to its return: the caller's script lists the
\* calls made so far, base is the document the last one loaded, ret what
\* it returned
SmCall ==
    /\ Len(Caller.script) < MaxCalls
    /\ \E op \in StoreOps :
         LET r == StoreCall(Load, op)
         IN /\ doc' = IF r.save THEN r.d ELSE doc
            /\ fileLen' = JsonLen(doc')
            /\ fs' = [p \in Paths |-> IF p \in ClearedFiles(Load, op) THEN 0 ELSE fs[p]]
            /\ api' = [api EXCEPT ![1] =
                          [pc |-> "returned", req |-> NoReq,
                           script |-> Append(Caller.script, op),
                           base |-> Load, bad |-> FALSE, ret |-> r.ret]]
    /\ UNCHANGED <<fileOk, ctl, det, procVars, cacheVars, apiCalls, crashes, dev, ghostVars>>

NextStore == SmCall

SpecStore == InitStore /\ [][NextStore]_vars

(***************************************************************************)
(* Properties.                                                             *)
(***************************************************************************)
\* a transcoding process of uid that runs and was sent no signal
Live(u) == Running(u) \/ \E o \in orphans : o.uid = u /\ o.st = "running"

PendingIntent(d) ==
    \E u \in DOMAIN d.b : d.b[u].status \in {"need_start", "need_stop", "need_restart"}

\* no request in progress, no pending intent, the file whole, no detector
\* pass under way, and the controller asleep after a tick that began and
\* ended with the document as it is now
Quiescent ==
    /\ \A t \in ApiThreads : api[t] = ApiIdle
    /\ ctl.pc = "sleep"
    /\ det.pc \in {"sleep", "dead"}
    /\ fileOk
    /\ quiet
    /\ ~PendingIntent(doc)

\* C1: a binding whose stored status was `stopped` reaches `started` only
\* through the stored statuses need_start, starting, started in that order,
\* never by another route such as need_restart
StateMachineSafety ==
    \A u \in DOMAIN doc.b : doc.b[u].status = "started" => hist[u] # "off"

\* C2: store mutations are serialized: the document a writer persists
\* after it loaded a whole document is the document stored just before its
\* write with that writer's mutation applied, and the file holds it whole,
\* so no mutation of a writer that saved in between is lost
MutationsSerialized ==
    [][/\ \A t \in ApiThreads :
            (api[t].pc = "open" /\ ~api[t].bad /\ api'[t].pc # "open")
               => /\ doc' = StoreCall(doc, Head(api[t].script)).d
                  /\ fileOk'
       /\ (ctl.pc = "open" /\ ctl'.pc # "open")
            => /\ doc' = StoreCall(doc, ctl.op).d
               /\ fileOk']_vars

\* C3: when both a need_start and a need_stop were written for a uid, the
\* status it has settled on once the controller is quiescent follows from
\* the intent written last: started for need_start, stopped for need_stop
LastIntentWins ==
    Quiescent =>
        \A u \in DOMAIN doc.b :
            Range(intents[u]) = {"need_start", "need_stop"} =>
                doc.b[u].status =
                    IF intents[u][Len(intents[u])] = "need_start"
                    THEN "started" ELSE "stopped"

\* C4: in every quiescent state a binding whose stored status is `stopped`
\* has no live transcoding process, processes left by a previous run
\* included
NoLiveWorkerWhileStopped ==
    Quiescent =>
        \A u \in DOMAIN doc.b : doc.b[u].status = "stopped" => ~Live(u)

\* the controller is in the update_status(uid, "need_restart") of the
\* started branch (line 78)
CrashFlipIssued ==
    /\ ctl.pc \in {"loaded", "open"}
    /\ ctl.after = "loop"
    /\ ctl.op.status = "need_restart"

\* C5: a started binding whose worker is missing or exited is flipped to
\* need_restart only after the threshold number of consecutive ticks
\* observed it missing; one missed observation never flips it
CrashFlipDebounced ==
    CrashFlipIssued => consecMiss[ctl.cur] >= DebounceThreshold

\* C6: with no new intent written for a uid, the launches that fail in a
\* row for it number at most max_attempts
LaunchRetryBound ==
    \A u \in Uids : failRun[u] <= MaxAttempts

\* C7: orphan reaping (_kill_unknown_ffmpeg) never signals a process whose
\* launch arguments name a uid that is in the store when the signal is sent
ReapSparesPresentUids ==
    [][\A u \in DOMAIN Load.b :
         ctl.pc = "kill" =>
            /\ ~(/\ u \in DOMAIN processes
                 /\ u \in DOMAIN processes'
                 /\ processes[u].st = "running"
                 /\ processes'[u].st = "signalled")
            /\ ~(\E o \in orphans :
                    /\ o.uid = u
                    /\ o.st = "running"
                    /\ [o EXCEPT !.st = "signalled"] \in orphans')]_vars

\* C8: once the controller is quiescent, no process of a uid that was
\* removed from the store is left running, whatever uids remain
UnbindTerminatesWorker ==
    Quiescent => \A u \in Uids \ DOMAIN doc.b : ~Live(u)

\* C9: once the controller is quiescent and the detector has nothing left
\* to flag for a started binding, its worker runs the stored url and
\* watermark map: the restart for a change was not dropped
ChangeRestartsWorker ==
    Quiescent =>
        \A u \in DOMAIN doc.b :
            (/\ doc.b[u].status = "started"
             /\ Running(u)
             /\ Changed(u, doc.b[u]) = "same")
            => /\ processes[u].url = doc.b[u].url
               /\ processes[u].wm = doc.b[u].water_mark

\* C10: a save that follows a load of a file that did not parse (cut to
\* no bytes by another writer, or a document followed by the rest of a
\* longer one) persists no document that has lost bindings the store held
CorruptLoadKeepsBindings ==
    [][\A t \in ApiThreads :
          (api[t].pc = "open" /\ api[t].bad /\ api'[t].pc # "open")
             => DOMAIN doc.b \subseteq DOMAIN doc'.b]_vars

\* C11: no error terminates a periodic loop: whatever a pass meets (here a
\* watermark path that is null), the Change Detector thread is still there
\* to take its next pass
DetectorSurvivesErrors == det.pc # "dead"

\* the uids of the tick's snapshot that the for loop has not begun
Unreached(c) == IF c.pc = "loop" THEN Tail(c.snap.keys) ELSE c.snap.keys

\* C12: a tick ends (the controller goes to sleep) only when the for loop
\* has been through the whole snapshot: an exception raised while one uid
\* is processed leaves no other uid with a pending intent unprocessed
TickReachesEveryUid ==
    [][(ctl.pc # "sleep" /\ ctl'.pc = "sleep")
         => \A i \in DOMAIN Unreached(ctl) :
               ctl.snap.b[Unreached(ctl)[i]].status
                   \notin {"need_start", "need_stop", "need_restart"}]_vars

\* C13: `starting`, `stopping` and `started` are written by the controller
\* only: a save of the API layer or of the Change Detector never changes
\* the stored status of an existing binding to one of the three
IntentOnlyWriters ==
    [][ctl' = ctl
         => \A u \in DOMAIN doc.b \cap DOMAIN doc'.b :
               doc'.b[u].status # doc.b[u].status
                 => doc'.b[u].status \notin {"starting", "stopping", "started"}]_vars

\* C14: when the handler of a start (stop) request for a bound uid is
\* done, the stored status of that binding is need_start (need_stop)
StartStopOnlySetIntent ==
    [][\A t \in ApiThreads :
          (/\ api[t].req.h \in {"start", "stop"}
           /\ api'[t].pc = "idle"
           /\ Has(Load, api[t].req.uid))
          => StatusOf(Load', api[t].req.uid) =
                (IF api[t].req.h = "start" THEN "need_start" ELSE "need_stop")]_vars

\* the last store call of the caller
LastCall == Caller.script[Len(Caller.script)]

\* C15: set_binding(uid, url, wm) followed by get_info(uid) returns the
\* record {url, wm, status, hls_no_wm, hls_wm} of that call, whatever the
\* store held before; the two locations are those of the uid, and two
\* bound uids never have the same plain or the same overlay location
SetBindingRoundTrip ==
    /\ (Caller.pc = "returned" /\ LastCall.k = "set_binding")
        => get_info(doc, LastCall.uid) =
              [url |-> LastCall.url, water_mark |-> LastCall.wm,
               hls_no_wm |-> <<"hls/">> \o UidChars(LastCall.uid) \o <<"_no_wm.m3u8">>,
               hls_wm |-> <<"hls/">> \o UidChars(LastCall.uid) \o <<"_wm.m3u8">>,
               status |-> LastCall.status]
    /\ \A u, v \in DOMAIN doc.b :
          u # v => /\ doc.b[u].hls_no_wm # doc.b[v].hls_no_wm
                   /\ doc.b[u].hls_wm # doc.b[v].hls_wm

\* a set_binding for a uid that was bound with another url and another
\* watermark map, beside a second binding
ReboundAndRead ==
    /\ Caller.pc = "returned"
    /\ LastCall.k = "set_binding"
    /\ Has(Caller.base, LastCall.uid)
    /\ Caller.base.b[LastCall.uid].url # LastCall.url
    /\ Caller.base.b[LastCall.uid].water_mark # LastCall.wm
    /\ Caller.base.b[LastCall.uid].status = "started"
    /\ LastCall.wm # <<>>
    /\ Cardinality(DOMAIN doc.b) = 2

\* C16: no store call changes the output locations of a binding: a binding
\* that is there before and after a call (update_status, update_url,
\* update_watermark, update_watermark_by_wm_uid, clear_watermarks, a call
\* for another uid, or set_binding issued again for the same uid) has the
\* same plain and overlay locations after it as before
OutputLocationsFixed ==
    Caller.pc = "returned"
      => \A u \in DOMAIN Caller.base.b \cap DOMAIN doc.b :
            /\ doc.b[u].hls_no_wm = Caller.base.b[u].hls_no_wm
            /\ doc.b[u].hls_wm = Caller.base.b[u].hls_wm

\* a binding whose url and then whose status were changed
ConfigChangedTwice ==
    /\ Caller.pc = "returned"
    /\ Len(Caller.script) = 2
    /\ Caller.script[1].k = "update_url"
    /\ Caller.script[2].k = "update_status"
    /\ Caller.script[1].uid = Caller.script[2].uid
    /\ Has(doc, LastCall.uid)
    /\ doc.b[LastCall.uid].url = "urlB"
    /\ doc.b[LastCall.uid].status = "need_restart"

\* C17: update_status(uid, s) called twice in a row for a bound uid leaves
\* after the second call the document the first call left; called for a
\* uid that is not bound it returns False and leaves the document as it
\* was, with no binding created
UpdateStatusIdempotent ==
    /\ (/\ Len(Caller.script) >= 2
        /\ Caller.script[Len(Caller.script) - 1] = LastCall
        /\ LastCall.k = "update_status"
        /\ Has(Caller.base, LastCall.uid))
       => doc = Caller.base /\ Caller.ret = "True"
    /\ (/\ Caller.pc = "returned"
        /\ LastCall.k = "update_status"
        /\ ~Has(Caller.base, LastCall.uid))
       => doc = Caller.base /\ Caller.ret = "False" /\ ~Has(doc, LastCall.uid)

\* the same update_status twice for a bound uid, beside another binding
SameStatusTwice ==
    /\ Len(Caller.script) = 2
    /\ Caller.script[1] = Caller.script[2]
    /\ LastCall.k = "update_status"
    /\ LastCall.status = "need_stop"
    /\ Has(doc, LastCall.uid)
    /\ doc.b[LastCall.uid].status = "need_stop"
    /\ Cardinality(DOMAIN doc.b) = 2

\* C18: the stored status of every binding is one of stopped, need_start,
\* starting, started, need_stop, stopping, need_restart, restarting, after
\* any run of API calls, controller ticks, detector passes, launch
\* failures and worker exits
StatusDomain ==
    \A u \in DOMAIN doc.b :
        doc.b[u].status \in
            {"stopped", "need_start", "starting", "started",
             "need_stop", "stopping", "need_restart", "restarting"}

\* a launch has failed and the controller has written need_restart for it
FailedLaunchMarked ==
    \E u \in DOMAIN doc.b :
        /\ failRun[u] > 0
        /\ doc.b[u].status = "need_restart"
        /\ ctl.pc = "final"

\* C19: the Change Detector never moves to need_restart a binding whose
\* status in the store is need_stop, stopping or stopped at the moment the
\* detector's write begins (its open of the file) or at the moment its
\* document is written
DetectorRespectsStop ==
    [][/\ (det.pc = "loaded" /\ det'.pc = "open")
            => StatusOf(Load, det.cur) \notin {"need_stop", "stopping", "stopped"}
       /\ (det.pc = "open" /\ det'.pc # "open")
            => StatusOf(Load, det.cur) \notin {"need_stop", "stopping", "stopped"}]_vars

\* C20: the controller writes `started` for a uid only when the registry
\* tracks a worker for it: a launch that failed is not reported as started
StartedOnlyWithWorker ==
    [][(/\ ctl.pc = "open"
        /\ ctl.op.status = "started"
        /\ ctl'.pc # "open")
         => ctl.op.uid \in DOMAIN processes]_vars

\* C21: the controller spawns a worker, and creates a registry handle,
\* only for a uid that is in the store at the time of the spawn
SpawnOnlyForBoundUid ==
    [][\A u \in Uids :
          (/\ u \in DOMAIN processes'
           /\ processes'[u].st = "running"
           /\ (u \notin DOMAIN processes \/ processes[u].st # "running"))
          => u \in DOMAIN doc.b]_vars

\* C22: for a binding its snapshot shows as need_stop the controller
\* writes `stopping` to the store; then it sends SIGTERM to the tracked
\* process if that still runs and drops the handle in the same step, the
\* process not yet exited; then it writes `stopped` to the store, and the
\* registry holds no handle for the uid
StopTransition ==
    [][/\ (ctl.pc = "loop" /\ ctl' # ctl
           /\ ctl.snap.b[Head(ctl.snap.keys)].status = "need_stop")
          => /\ ctl'.pc = "loaded"
             /\ ctl'.op = OpUpdateStatus(Head(ctl.snap.keys), "stopping")
             /\ ctl'.after = "stop"
       /\ (ctl.pc = "open" /\ ctl.op.status = "stopping" /\ ctl'.pc # "open")
          => /\ ctl'.pc = "stop"
             /\ StatusOf(Load', ctl.op.uid) = "stopping"
       /\ (ctl.pc = "stop" /\ ctl' # ctl)
          => /\ ctl.cur \notin DOMAIN processes'
             /\ (ctl.cur \in DOMAIN processes /\ PollNone(processes[ctl.cur]))
                  => \E o \in orphans' : o.uid = ctl.cur /\ o.st = "signalled"
             /\ ctl'.pc = "call"
             /\ ctl'.op = OpUpdateStatus(ctl.cur, "stopped")
       /\ (ctl.pc = "call" /\ ctl.op.status = "stopped" /\ ctl' # ctl)
          => /\ ctl'.pc = "loaded"
             /\ ctl'.op = ctl.op
       /\ (ctl.pc = "open" /\ ctl.op.status = "stopped" /\ ctl'.pc # "open")
          => /\ StatusOf(Load', ctl.op.uid) = "stopped"
             /\ ctl.op.uid \notin DOMAIN processes']_vars

\* C23: once the controller has seen, in the started or the stopped
\* branch, that the tracked process of a uid has exited, the registry no
\* longer holds the handle
ExitedHandleRemoved ==
    [][\A u \in DOMAIN processes :
          (/\ ctl.pc = "loop"
           /\ ctl' # ctl
           /\ u = Head(ctl.snap.keys)
           /\ ctl.snap.b[u].status \in {"started", "stopped"}
           /\ ~PollNone(processes[u]))
          => u \notin DOMAIN processes']_vars

\* C24: the command of a launched worker has the source url as its first
\* input and then one input per watermark path in the map's insertion
\* order, n + 1 in all; with n >= 1 watermarks the filter chain scales
\* input i + 1 and overlays it on the composite of the watermarks before
\* it (the source video for the first), the overlay output maps the last
\* composite and the plain output follows; with none there is no filter
\* chain and the plain output alone
CommandKeepsWatermarkOrder ==
    \A u \in DOMAIN processes :
        LET h == processes[u]
            n == Len(h.wm)
            c == h.cmd
        IN /\ Len(c.inputs) = n + 1
           /\ c.inputs[1] = h.url
           /\ \A i \in 1..n : c.inputs[i + 1] = h.wm[i][2]
           /\ n = 0 =>
                 /\ c.filter_complex = <<>>
                 /\ Len(c.outputs) = 1
                 /\ c.outputs[1].video = <<"in", 0>>
                 /\ c.outputs[1].playlist = PlaylistNoWm(u)
           /\ n >= 1 =>
                 /\ Len(c.filter_complex) = 2 * n
                 /\ \A i \in 1..n :
                       /\ c.filter_complex[2 * i - 1].op = "scale"
                       /\ c.filter_complex[2 * i - 1].a = <<"in", i>>
                       /\ c.filter_complex[2 * i - 1].out = <<"wm", i - 1>>
                       /\ c.filter_complex[2 * i].op = "overlay"
                       /\ c.filter_complex[2 * i].a =
                             (IF i = 1 THEN <<"in", 0>> ELSE <<"v", i - 2>>)
                       /\ c.filter_complex[2 * i].b = <<"wm", i - 1>>
                       /\ c.filter_complex[2 * i].out = <<"v", i - 1>>
                 /\ Len(c.outputs) = 2
                 /\ c.outputs[1].video = <<"v", n - 1>>
                 /\ c.outputs[1].playlist = PlaylistWm(u)
                 /\ c.outputs[2].video = <<"in", 0>>
                 /\ c.outputs[2].playlist = PlaylistNoWm(u)

\* a worker launched for a binding with two watermarks, the fence
\* watermark put in before the default one
TwoWatermarksLaunched ==
    \E u \in DOMAIN processes :
        /\ processes[u].st = "running"
        /\ Len(processes[u].wm) = 2
        /\ processes[u].wm[1][1] = "f"
        /\ processes[u].wm[2][1] = "0"
        /\ processes[u].wm[1][2] # processes[u].wm[2][2]

\* C25: the start-up probe never aborts the start-up: whatever step of
\* check_device fails, StreamController.__init__ completes
ProbeNeverAborts == dev.pc # "aborted"

\* the processes of uid that have not exited: the tracked one, and those
\* the registry no longer refers to
AliveTracked(u) ==
    IF u \in DOMAIN processes /\ PollNone(processes[u]) THEN 1 ELSE 0

AliveUntracked(u) == Cardinality({o \in orphans : o.uid = u})

\* C26: at no time are two transcoding processes of the same uid alive
AtMostOneWorkerPerUid ==
    \A u \in Uids : AliveTracked(u) + AliveUntracked(u) <= 1

\* no request is being served and none will arrive: no intent is written
\* from here on
NoFurtherIntent == (\A t \in ApiThreads : api[t] = ApiIdle) /\ apiCalls = MaxApi

\* C27: with the controller scheduled fairly and no further intent written,
\* a need_start or need_restart binding ends up started with a running
\* tracked worker, a started binding whose worker exited gets a worker
\* again, and starting and stopping are left again
StartAndRecoveryConverge ==
    \A u \in Uids :
        /\ (NoFurtherIntent /\ StatusOf(Load, u) \in {"need_start", "need_restart"})
              ~> (StatusOf(Load, u) = "started" /\ Running(u))
        /\ (NoFurtherIntent /\ StatusOf(Load, u) = "started"
                /\ u \in DOMAIN processes /\ ~PollNone(processes[u]))
              ~> Running(u)
        /\ (StatusOf(Load, u) \in {"starting", "stopping"})
              ~> (StatusOf(Load, u) \notin {"starting", "stopping"})

=============================================================================
